---- MODULE Spec2Model ----
(***************************************************************************)
(* The task lifecycle client of the document-analysis front end.           *)
(*                                                                         *)
(* A page mounts one of two document-processing components:                *)
(*   - DataVisualizationAdvanced, which drives a job through               *)
(*     advanced_api.ts (processDocument / pollTaskUntilComplete), and      *)
(*   - ChatAssistant, which carries its own uploadDocument /               *)
(*     getTaskStatus / pollTaskUntilComplete / processDocument.            *)
(* The remote service is the environment: every response (HTTP status,     *)
(* task id, status snapshot) is chosen by it without restriction.          *)
(* Beside them the module holds downloadFile with its caller               *)
(* handleDownload, and parseOCRData of DataVisualizationUpdated, the       *)
(* parser that turns the text of a result into chart datasets.             *)
(*                                                                         *)
(* An action is one synchronous stretch of the JavaScript code: from the   *)
(* event or the resolved await that starts it up to the next await.        *)
(* Texts are records [tmpl, arg]: the template of the source's string and  *)
(* the value interpolated into it.  The free text current_step of a        *)
(* snapshot travels exactly like message and is not represented apart.     *)
(***************************************************************************)
EXTENDS Integers, Sequences, FiniteSets, TLC

\* ---------------------------------------------------------------- bounds
MaxProgress == 1      \* snapshots report progress 0..MaxProgress
NumMessages == 2      \* distinct server message texts
MaxTaskId == 2        \* task ids the service hands out
MaxUploads == 2       \* uploads of one session
PollCap == 3          \* polls explored of ChatAssistant's uncapped loop
MaxLines == 2         \* lines of a text handed to parseOCRData
MaxCalls == 2         \* calls of parseOCRData
MaxDownloads == 2     \* downloads of one session

\* ------------------------------------------------------ program constants
maxAttempts == 150    \* pollTaskUntilComplete's default maxAttempts
maxSizeMB == 100      \* validateFileSize's default maxSizeMB

DVA == "DataVisualizationAdvanced"
Chat == "ChatAssistant"
DVU == "DataVisualizationUpdated"
ChatU == "ChatAssistantUpdated"
Components == {DVA, Chat, DVU, ChatU}

\* -------------------------------------------------------------- data model
TaskState == {"pending", "ocr_processing", "analyzing", "visualizing", "completed", "error"}

Snapshots == [status : TaskState, progress : 0..MaxProgress, message : 1..NumMessages]
NoSnapshot == [status |-> "null", progress |-> 0, message |-> 0]

TaskIds == 1..MaxTaskId
NoTask == 0

\* The order of the status values: pending < ocr_processing < analyzing <
\* visualizing < {completed, error}.
Rank(s) ==
  CASE s = "pending" -> 0
    [] s = "ocr_processing" -> 1
    [] s = "analyzing" -> 2
    [] s = "visualizing" -> 3
    [] OTHER -> 4

IsTerminal(s) == s \in {"completed", "error"}

\* A response of the service: 0 stands for a fetch that rejects (no
\* connectivity), any other value is the HTTP status of the response.
ResponseCodes == {0, 200, 404, 500}
ResponseOk(code) == code >= 200 /\ code <= 299
FailureCodes == {code \in ResponseCodes : ~ResponseOk(code)}

NoText == [tmpl |-> "null", arg |-> 0]
NoError == NoText
NetworkError == [tmpl |-> "TypeError: Failed to fetch", arg |-> 0]

NoResults == [src |-> "null", task |-> 0]

\* ------------------------------------------------------------------ files
MaxSizeBytes == maxSizeMB * 1024 * 1024
Files == [mime : {"image/png", "application/zip"},
          ext : {"pdf", "exe"},
          size : {MaxSizeBytes, MaxSizeBytes + 1}]

validateFileType(f) ==
  \/ f.mime \in {"image/jpeg", "image/jpg", "image/png",
                 "application/pdf", "text/plain", "text/markdown"}
  \/ f.ext \in {"jpg", "jpeg", "png", "pdf", "txt", "md"}

validateFileSize(f) == f.size <= MaxSizeBytes

\* ------------------------------------------------------------------ state
VARIABLES
  ui,                 \* the component the page mounts
  mounted,            \* the component is still on the page
  uploads,            \* uploads started in this session
  pc,                 \* the await the processing run is suspended at
  taskId,             \* task_id of the run (uploadResponse.task_id)
  attempts,           \* pollTaskUntilComplete's attempts (advanced_api)
  runResults,         \* processDocument's local results (advanced_api)
  inflight,           \* requests sent and not yet answered
  isProcessing,       \* component state, both components
  taskStatus,         \* DataVisualizationAdvanced state
  processingResults,  \* DataVisualizationAdvanced state
  htmlReport,         \* DataVisualizationAdvanced state
  currentTaskId,      \* DataVisualizationAdvanced state
  currentTask,        \* ChatAssistant state
  processedResults,   \* ChatAssistant state
  uploadedFile,       \* ChatAssistant state
  messages,           \* ChatAssistant state: the transcript
  \* what the run has done so far (reset when a run starts)
  runResult,          \* "none", "pending", "resolved", "rejected"
  runError,           \* the error the run rejected with
  statusRequests,     \* GET /status requests issued
  resultsRequests,    \* GET /results requests issued
  resultsTask,        \* the task id of the GET /results request
  progressCalls,      \* invocations of onProgress / onUpdate
  delivered,          \* the snapshot of the latest invocation
  deliveredTask,      \* the task id that snapshot was requested for
  failedPoll          \* response code of a failed status request, -1 if none

vars == <<ui, mounted, uploads, pc, taskId, attempts, runResults, inflight,
          isProcessing, taskStatus, processingResults, htmlReport, currentTaskId,
          currentTask, processedResults, uploadedFile, messages,
          runResult, runError, statusRequests, resultsRequests, resultsTask,
          progressCalls, delivered, deliveredTask, failedPoll>>

dvaState == <<taskStatus, processingResults, htmlReport, currentTaskId>>
chatState == <<currentTask, processedResults, uploadedFile, messages>>
runLog == <<statusRequests, resultsRequests, resultsTask, progressCalls,
            delivered, deliveredTask, failedPoll>>

Request(kind, t, n) == [kind |-> kind, task |-> t, n |-> n]

\* What the service may answer: a failure (no body is read), or a success
\* with the body the endpoint returns.
Failures == {[code |-> c, body |-> 0] : c \in FailureCodes}
UploadResponses == Failures \cup {[code |-> 200, body |-> id] : id \in TaskIds}
StatusResponses == Failures \cup {[code |-> 200, body |-> s] : s \in Snapshots}
PlainResponses == Failures \cup {[code |-> 200, body |-> 0]}
StatusInflight == {r \in inflight : r.kind = "status"}

\* --------------------------------------------------------- error messages
\* uploadDocument: `upload failed: ${response.status} ...` (advanced_api),
\* `upload failed: ${response.statusText}` (ChatAssistant).
UploadFailure(code) ==
  IF code = 0 THEN NetworkError ELSE [tmpl |-> "upload failed: %s", arg |-> code]

\* getTaskStatus: `status query failed: ${response.status}` (advanced_api),
\* `get status failed: ${response.statusText}` (ChatAssistant).
StatusFailure(c, code) ==
  IF code = 0 THEN NetworkError
  ELSE IF c = DVA THEN [tmpl |-> "status query failed: %s", arg |-> code]
  ELSE [tmpl |-> "get status failed: %s", arg |-> code]

\* getProcessingResults: `get results failed: ${response.status}`.
ResultsFailure(code) ==
  IF code = 0 THEN NetworkError ELSE [tmpl |-> "get results failed: %s", arg |-> code]

\* getHtmlReport: `get report failed: ${response.status}`.
ReportFailure(code) ==
  IF code = 0 THEN NetworkError ELSE [tmpl |-> "get report failed: %s", arg |-> code]

\* throw new Error(status.message)
JobError(s) == [tmpl |-> "%s", arg |-> s.message]

\* throw new Error('processing timed out')
TimeoutError == [tmpl |-> "processing timed out", arg |-> 0]

\* ------------------------------------------------- ChatAssistant transcript
Message(type, content, progress, completed) ==
  [type |-> type, content |-> content, progress |-> progress, completed |-> completed]

\* startMessage of processDocument
StartMessage(f) ==
  Message("status", [tmpl |-> "start processing document %s", arg |-> f.ext], 0, FALSE)

\* progressMessage of the onUpdate callback
ProgressMessage(s) ==
  Message("status", [tmpl |-> "%s", arg |-> s.message], s.progress, FALSE)

CompletedMessage ==
  Message("status", [tmpl |-> "document parsed, ready for questions", arg |-> 0], 100, TRUE)

ParsedMessage ==
  Message("assistant", [tmpl |-> "document parsing completed", arg |-> 0], 0, FALSE)

\* errorMessage of processDocument's catch
ErrorMessage(err) ==
  Message("assistant", [tmpl |-> "processing failed: %s", arg |-> err], 0, FALSE)

LastIsStatus(msgs) == Len(msgs) > 0 /\ msgs[Len(msgs)].type = "status"

\* setMessages(prev => ...) of the onUpdate callback
ReplaceLastStatus(msgs, m) ==
  IF LastIsStatus(msgs) THEN [msgs EXCEPT ![Len(msgs)] = m] ELSE Append(msgs, m)

\* prev.filter(...) of processDocument's catch
RemoveLastStatus(msgs) ==
  IF LastIsStatus(msgs) THEN SubSeq(msgs, 1, Len(msgs) - 1) ELSE msgs

\* setMessages(prev => ...) after the results were fetched
CompleteTranscript(msgs) ==
  Append(IF LastIsStatus(msgs) THEN [msgs EXCEPT ![Len(msgs)] = CompletedMessage] ELSE msgs,
         ParsedMessage)

\* ------------------------------------------------------- the polling loop
\* A loop that tests the counter with <= runs one iteration too many.
LoopConditionInclusive(a) == a <= maxAttempts

\* while (attempts < maxAttempts)            advanced_api.pollTaskUntilComplete
LoopCondition(a) == a < maxAttempts

\* while (true)                               ChatAssistant's pollTaskUntilComplete
ChatLoopCondition == TRUE

LoopContinues(c, a) == IF c = DVA THEN LoopCondition(a) ELSE ChatLoopCondition

\* A loop that forgets the error branch keeps polling a failed job.
AfterSnapshotErrorIgnored(s) ==
  IF s.status = "completed" THEN "results" ELSE "sleep"

\* A loop that takes the last processing stage for the end of the job
\* fetches the results too early.
AfterSnapshotEagerResults(s) ==
  IF s.status \in {"completed", "visualizing"} THEN "results"
  ELSE IF s.status = "error" THEN "throw"
  ELSE "sleep"

\* What follows onProgress(status): completed -> the results are fetched,
\* error -> throw new Error(status.message), otherwise the polling delay.
AfterSnapshot(s) ==
  IF s.status = "completed" THEN "results"
  ELSE IF s.status = "error" THEN "throw"
  ELSE "sleep"

\* A loop that catches the failure of a poll goes on to the next iteration.
AfterPollFailureRetry(code) == "retry"

\* getTaskStatus rethrows and the loop has no catch: a failed poll ends the run.
AfterPollFailure(code) == "throw"

\* A poller on an interval timer fires while its request is still
\* outstanding.
TimerArmedAtRequest(p) == p \in {"sleep", "status"}

\* The delay of an iteration is awaited after its status request was awaited:
\* the timer exists only while the run is suspended at the delay.
TimerArmed(p) == p = "sleep"

\* A handler that resets the flag at the end of its try block only leaves
\* it set when the run fails.
ProcessingLeftSet == TRUE

\* finally { setIsProcessing(false) }: the flag after a run that failed.
ProcessingAfterFailure == FALSE

\* The run ends by an exception: processDocument's / handleFileUpload's catch
\* and finally.  (DataVisualizationAdvanced shows the error in an alert.)
Rejects(err, net, msgs) ==
  /\ pc' = "idle"
  /\ inflight' = net
  /\ runResult' = "rejected"
  /\ runError' = err
  /\ isProcessing' = ProcessingAfterFailure
  /\ messages' = IF ui = Chat /\ mounted
                 THEN Append(RemoveLastStatus(msgs), ErrorMessage(err))
                 ELSE msgs
  /\ UNCHANGED statusRequests

\* await new Promise(resolve => setTimeout(resolve, pollInterval))
Sleeps(net, msgs) ==
  /\ pc' = "sleep"
  /\ inflight' = net
  /\ messages' = msgs
  /\ UNCHANGED <<runResult, runError, isProcessing, statusRequests>>

\* The head of the loop with attempts = a: the next getTaskStatus request, or
\* the timeout error once the condition fails.
LoopHead(a, t, net, msgs) ==
  IF LoopContinues(ui, a)
  THEN /\ pc' = "status"
       /\ inflight' = net \cup {Request("status", t, statusRequests + 1)}
       /\ statusRequests' = statusRequests + 1
       /\ messages' = msgs
       /\ UNCHANGED <<runResult, runError, isProcessing>>
  ELSE Rejects(TimeoutError, net, msgs)

\* A processing run starts: uploadDocument's POST is sent.
StartRun ==
  /\ uploads' = uploads + 1
  /\ pc' = "upload"
  /\ inflight' = inflight \cup {Request("upload", NoTask, uploads + 1)}
  /\ taskId' = NoTask
  /\ attempts' = 0
  /\ runResults' = NoResults
  /\ runResult' = "pending"
  /\ runError' = NoError
  /\ statusRequests' = 0
  /\ resultsRequests' = 0
  /\ resultsTask' = NoTask
  /\ progressCalls' = 0
  /\ delivered' = NoSnapshot
  /\ deliveredTask' = NoTask
  /\ failedPoll' = -1

\* ---------------------------------------------------------------- actions
\* ChatAssistantUpdated starts with its welcome message in the transcript.
InitialMessages(c) ==
  IF c = ChatU THEN <<[type |-> "system", content |-> "welcome", about |-> 0]>> ELSE <<>>

Init ==
  /\ ui \in Components
  /\ mounted = TRUE
  /\ uploads = 0
  /\ pc = "idle"
  /\ taskId = NoTask
  /\ attempts = 0
  /\ runResults = NoResults
  /\ inflight = {}
  /\ isProcessing = FALSE
  /\ taskStatus = NoSnapshot
  /\ processingResults = NoResults
  /\ htmlReport = NoResults
  /\ currentTaskId = NoTask
  /\ currentTask = NoSnapshot
  /\ processedResults = NoResults
  /\ uploadedFile = "null"
  /\ messages = InitialMessages(ui)
  /\ runResult = "none"
  /\ runError = NoError
  /\ statusRequests = 0
  /\ resultsRequests = 0
  /\ resultsTask = NoTask
  /\ progressCalls = 0
  /\ delivered = NoSnapshot
  /\ deliveredTask = NoTask
  /\ failedPoll = -1

\* A file input that is never disabled takes a file while a run is going on.
InputNeverDisabled == FALSE

\* <input type="file" ... disabled={isProcessing} />, in both components
InputDisabled == isProcessing

\* DataVisualizationAdvanced.handleFileUpload up to the await of the upload
\* (the file input is disabled while isProcessing).
DVA_handleFileUpload(f) ==
  /\ ui = DVA /\ mounted /\ ~InputDisabled
  /\ uploads < MaxUploads
  /\ IF ~validateFileType(f) \/ ~validateFileSize(f)
     THEN UNCHANGED vars
     ELSE /\ isProcessing' = TRUE
          /\ currentTaskId' = NoTask
          /\ taskStatus' = NoSnapshot
          /\ StartRun
          /\ UNCHANGED <<ui, mounted, processingResults, htmlReport, chatState>>

\* ChatAssistant.handleFileUpload and processDocument up to the await of the
\* upload (the file input is disabled while isProcessing).
Chat_handleFileUpload(f) ==
  /\ ui = Chat /\ mounted /\ ~InputDisabled
  /\ uploads < MaxUploads
  /\ uploadedFile' = f.ext
  /\ isProcessing' = TRUE
  /\ currentTask' = NoSnapshot
  /\ processedResults' = NoResults
  /\ messages' = Append(messages, StartMessage(f))
  /\ StartRun
  /\ UNCHANGED <<ui, mounted, dvaState>>

\* The upload is answered: on success pollTaskUntilComplete starts with the
\* task id of the response.
UploadResponse(resp) ==
  LET code == resp.code
      id == resp.body
  IN
  /\ pc = "upload"
  /\ \E r \in inflight :
       /\ r.kind = "upload"
       /\ IF ResponseOk(code)
          THEN /\ taskId' = id
               /\ LoopHead(0, id, inflight \ {r}, messages)
          ELSE /\ taskId' = taskId
               /\ Rejects(UploadFailure(code), inflight \ {r}, messages)
  /\ attempts' = 0
  /\ UNCHANGED <<ui, mounted, uploads, runResults, dvaState, currentTask,
                 processedResults, uploadedFile, resultsRequests, resultsTask,
                 progressCalls, delivered, deliveredTask, failedPoll>>

\* A status request is answered: getTaskStatus, the progress callback and
\* the branch on status.status.
StatusResponse(resp) ==
  LET code == resp.code
      snap == resp.body
  IN
  /\ \E r \in StatusInflight :
       LET net == inflight \ {r} IN
       IF ~ResponseOk(code)
       THEN /\ failedPoll' = code
            /\ IF AfterPollFailure(code) = "throw"
               THEN Rejects(StatusFailure(ui, code), net, messages)
               ELSE Sleeps(net, messages)
            /\ UNCHANGED <<progressCalls, delivered, deliveredTask,
                           taskStatus, currentTask, resultsRequests, resultsTask>>
       ELSE /\ progressCalls' = progressCalls + 1
            /\ delivered' = snap
            /\ deliveredTask' = r.task
            /\ taskStatus' = IF ui = DVA /\ mounted THEN snap ELSE taskStatus
            /\ currentTask' = IF ui = Chat /\ mounted THEN snap ELSE currentTask
            /\ failedPoll' = failedPoll
            /\ LET msgs == IF ui = Chat /\ mounted
                           THEN ReplaceLastStatus(messages, ProgressMessage(snap))
                           ELSE messages
               IN CASE AfterSnapshot(snap) = "results" ->
                         /\ pc' = "results"
                         /\ inflight' = net \cup {Request("results", taskId, resultsRequests + 1)}
                         /\ resultsRequests' = resultsRequests + 1
                         /\ resultsTask' = taskId
                         /\ messages' = msgs
                         /\ UNCHANGED <<runResult, runError, isProcessing, statusRequests>>
                    [] AfterSnapshot(snap) = "throw" ->
                         /\ Rejects(JobError(snap), net, msgs)
                         /\ UNCHANGED <<resultsRequests, resultsTask>>
                    [] OTHER ->
                         /\ Sleeps(net, msgs)
                         /\ UNCHANGED <<resultsRequests, resultsTask>>
  /\ UNCHANGED <<ui, mounted, uploads, taskId, attempts, runResults,
                 processingResults, htmlReport, currentTaskId,
                 processedResults, uploadedFile>>

\* The polling delay elapses: attempts++ and the loop condition.  Of
\* ChatAssistant's uncapped loop the first cap polls are explored.
TimerFiresWithin(cap) ==
  /\ TimerArmed(pc)
  /\ ui = Chat => statusRequests < cap
  /\ attempts' = IF ui = DVA THEN attempts + 1 ELSE attempts
  /\ LoopHead(attempts + 1, taskId, inflight, messages)
  /\ UNCHANGED <<ui, mounted, uploads, taskId, runResults, dvaState, currentTask,
                 processedResults, uploadedFile, resultsRequests, resultsTask,
                 progressCalls, delivered, deliveredTask, failedPoll>>

TimerFires == TimerFiresWithin(PollCap)

\* advanced_api: getProcessingResults is answered; processDocument goes on
\* to getHtmlReport.
DVA_ResultsResponse(resp) ==
  LET code == resp.code IN
  /\ ui = DVA /\ pc = "results"
  /\ \E r \in inflight :
       /\ r.kind = "results"
       /\ IF ResponseOk(code)
          THEN /\ runResults' = [src |-> "results", task |-> r.task]
               /\ pc' = "report"
               /\ inflight' = (inflight \ {r}) \cup {Request("report", taskId, 1)}
               /\ UNCHANGED <<runResult, runError, isProcessing, messages, statusRequests>>
          ELSE /\ runResults' = runResults
               /\ Rejects(ResultsFailure(code), inflight \ {r}, messages)
  /\ UNCHANGED <<ui, mounted, uploads, taskId, attempts, dvaState, currentTask,
                 processedResults, uploadedFile, runLog>>

\* advanced_api: getHtmlReport is answered; processDocument returns and
\* handleFileUpload stores the results.
DVA_ReportResponse(resp) ==
  LET code == resp.code IN
  /\ ui = DVA /\ pc = "report"
  /\ \E r \in inflight :
       /\ r.kind = "report"
       /\ IF ResponseOk(code)
          THEN /\ processingResults' = IF mounted THEN runResults ELSE processingResults
               /\ htmlReport' = IF mounted THEN [src |-> "report", task |-> r.task]
                                ELSE htmlReport
               /\ currentTaskId' = IF mounted THEN taskId ELSE currentTaskId
               /\ pc' = "idle"
               /\ inflight' = inflight \ {r}
               /\ runResult' = "resolved"
               /\ isProcessing' = FALSE
               /\ UNCHANGED <<runError, messages, statusRequests>>
          ELSE /\ Rejects(ReportFailure(code), inflight \ {r}, messages)
               /\ UNCHANGED <<processingResults, htmlReport, currentTaskId>>
  /\ UNCHANGED <<ui, mounted, uploads, taskId, attempts, runResults, taskStatus,
                 currentTask, processedResults, uploadedFile,
                 resultsRequests, resultsTask, progressCalls, delivered,
                 deliveredTask, failedPoll>>

\* ChatAssistant.processDocument: the fetch of /results is answered.  The
\* response is not tested for ok: the JSON body of any response is stored.
Chat_ResultsResponse(resp) ==
  LET code == resp.code IN
  /\ ui = Chat /\ pc = "results"
  /\ \E r \in inflight :
       /\ r.kind = "results"
       /\ IF code = 0
          THEN /\ Rejects(NetworkError, inflight \ {r}, messages)
               /\ UNCHANGED processedResults
          ELSE /\ processedResults' =
                    IF ~mounted THEN processedResults
                    ELSE IF ResponseOk(code) THEN [src |-> "results", task |-> r.task]
                    ELSE [src |-> "error body", task |-> code]
               /\ messages' = IF mounted THEN CompleteTranscript(messages) ELSE messages
               /\ pc' = "idle"
               /\ inflight' = inflight \ {r}
               /\ runResult' = "resolved"
               /\ isProcessing' = FALSE
               /\ UNCHANGED <<runError, statusRequests>>
  /\ UNCHANGED <<ui, mounted, uploads, taskId, attempts, runResults, dvaState,
                 currentTask, uploadedFile,
                 resultsRequests, resultsTask, progressCalls, delivered,
                 deliveredTask, failedPoll>>

\* ChatAssistant's re-upload button (disabled while isProcessing).
Chat_reupload ==
  /\ ui = Chat /\ mounted /\ ~isProcessing
  /\ uploadedFile # "null"
  /\ uploadedFile' = "null"
  /\ processedResults' = NoResults
  /\ currentTask' = NoSnapshot
  /\ UNCHANGED <<ui, mounted, uploads, pc, taskId, attempts, runResults, inflight,
                 isProcessing, dvaState, messages, runResult, runError, runLog>>

\* The component leaves the page: its state is gone and later setState
\* calls have no effect.  Nothing tells the run.
Unmount ==
  /\ mounted
  /\ mounted' = FALSE
  /\ isProcessing' = FALSE
  /\ taskStatus' = NoSnapshot
  /\ processingResults' = NoResults
  /\ htmlReport' = NoResults
  /\ currentTaskId' = NoTask
  /\ currentTask' = NoSnapshot
  /\ processedResults' = NoResults
  /\ uploadedFile' = "null"
  /\ messages' = <<>>
  /\ UNCHANGED <<ui, uploads, pc, taskId, attempts, runResults, inflight,
                 runResult, runError, runLog>>

\* ------------------------------------------------------------ parseOCRData
\* DataVisualizationUpdated.parseOCRData.  A text is the sequence of its
\* lines (markdown.split('\n')) and a line is a sequence of characters.  The
\* characters the parser tells apart are kept, written in ASCII: the digits,
\* "|", ":" and the full-width colon "::", ",", ".", " ", the units wan and
\* yuan, the month sign yue, one character "x" for any other character, and
\* one character for each keyword the parser looks for (xiaoshoue "sales
\* amount", shouru "income", zengzhang "growth", chanpin "product", fenlei
\* "category"; zengzhanglv "growth rate" contains zengzhang).
Digits == {"0", "1", "2", "3", "4", "5", "6", "7", "8", "9"}

DigitValue(c) ==
  CASE c = "0" -> 0 [] c = "1" -> 1 [] c = "2" -> 2 [] c = "3" -> 3
    [] c = "4" -> 4 [] c = "5" -> 5 [] c = "6" -> 6 [] c = "7" -> 7
    [] c = "8" -> 8 [] c = "9" -> 9

SetMin(S) == CHOOSE x \in S : \A y \in S : x <= y
SetMax(S) == CHOOSE x \in S : \A y \in S : x >= y

\* String.prototype.includes for one character or keyword.
includes(s, c) == \E i \in 1..Len(s) : s[i] = c

\* String.prototype.trim
trim(s) ==
  LET solid == {i \in 1..Len(s) : s[i] # " "}
  IN IF solid = {} THEN <<>> ELSE SubSeq(s, SetMin(solid), SetMax(solid))

\* String.prototype.split for a one-character separator.
RECURSIVE split(_, _)
split(s, sep) ==
  LET at == {i \in 1..Len(s) : s[i] = sep}
  IN IF at = {} THEN <<s>>
     ELSE <<SubSeq(s, 1, SetMin(at) - 1)>> \o split(SubSeq(s, SetMin(at) + 1, Len(s)), sep)

\* s.replace(/[^...]/g, '') and s.replace(/[...]/g, ''): the characters of
\* s that are in keep.
Keep(s, keep) ==
  LET Kept(c) == c \in keep IN SelectSeq(s, Kept)

\* The end of the longest run of characters of class that starts at i
\* (i - 1 when s[i] is not of the class).
RunEnd(s, i, class) ==
  LET stop == {k \in i..Len(s) : s[k] \notin class}
  IN IF stop = {} THEN Len(s) ELSE SetMin(stop) - 1

\* A number m / 10^e, written without trailing zeros, and NaN.
Num(m, e) == [nan |-> FALSE, m |-> m, e |-> e]
NaN == [nan |-> TRUE, m |-> 0, e |-> 0]

RECURSIVE Normal(_, _)
Normal(m, e) == IF e > 0 /\ m % 10 = 0 THEN Normal(m \div 10, e - 1) ELSE Num(m, e)

RECURSIVE DigitsValue(_)
DigitsValue(ds) ==
  IF ds = <<>> THEN 0
  ELSE DigitsValue(SubSeq(ds, 1, Len(ds) - 1)) * 10 + DigitValue(ds[Len(ds)])

\* parseFloat on a string of digits and points (what the two replace calls
\* leave): the longest prefix digits [ "." digits ], NaN when it has no digit.
parseFloat(s) ==
  LET j == RunEnd(s, 1, Digits)
      point == j < Len(s) /\ s[j + 1] = "."
      k == IF point THEN RunEnd(s, j + 2, Digits) ELSE j
      whole == SubSeq(s, 1, j)
      frac == IF point THEN SubSeq(s, j + 2, k) ELSE <<>>
  IN IF whole = <<>> /\ frac = <<>> THEN NaN
     ELSE Normal(DigitsValue(whole \o frac), Len(frac))

SalesKeywords == {"xiaoshoue", "shouru"}
GrowthKeywords == {"zengzhanglv", "zengzhang"}
CategoryKeywords == {"chanpin", "fenlei"}

\* A tag that holds for its own line only is lost on the first line without
\* a keyword.
SectionAfterNotSticky(s, line) ==
  IF \E k \in SalesKeywords : includes(line, k) THEN "sales"
  ELSE IF \E k \in GrowthKeywords : includes(line, k) THEN "growth"
  ELSE IF \E k \in CategoryKeywords : includes(line, k) THEN "categories"
  ELSE ""

\* The section a line switches to, s when it names none (first match of the
\* if / else if chain).
SectionAfter(s, line) ==
  IF \E k \in SalesKeywords : includes(line, k) THEN "sales"
  ELSE IF \E k \in GrowthKeywords : includes(line, k) THEN "growth"
  ELSE IF \E k \in CategoryKeywords : includes(line, k) THEN "categories"
  ELSE s

\* trimmedLine.split('|').map(p => p.trim()).filter(p => p)
Parts(line) ==
  LET cut == split(line, "|")
      trimmed == [i \in 1..Len(cut) |-> trim(cut[i])]
      NonEmpty(p) == p # <<>>
  IN SelectSeq(trimmed, NonEmpty)

\* parseFloat(parts[i].replace(/[^\d.]/g, ''))
FieldValue(p) == parseFloat(Keep(p, Digits \cup {"."}))

\* The for loop over parts[1..]: one point per field whose value is a number.
RECURSIVE RowPoints(_, _)
RowPoints(parts, i) ==
  IF i > Len(parts) THEN <<>>
  ELSE (IF FieldValue(parts[i]).nan THEN <<>>
        ELSE <<[key |-> parts[1], value |-> FieldValue(parts[i])]>>)
       \o RowPoints(parts, i + 1)

NoMatch == [matched |-> FALSE, label |-> <<>>, number |-> <<>>]

\* Where /(\d+[yue]?)[::]\s*([\d,.]+)\s*(wan yuan|yuan|wan)/ can match from
\* position i: the groups, or matched = FALSE.
MatchAt(s, i) ==
  LET j == RunEnd(s, i, Digits)
      k == IF j < Len(s) /\ s[j + 1] = "yue" THEN j + 1 ELSE j
      n1 == RunEnd(s, k + 2, {" "}) + 1
      n2 == RunEnd(s, n1, Digits \cup {",", "."})
      u == RunEnd(s, n2 + 1, {" "}) + 1
  IN IF /\ j >= i
        /\ k < Len(s) /\ s[k + 1] \in {":", "::"}
        /\ n2 >= n1
        /\ u <= Len(s) /\ s[u] \in {"wan", "yuan"}
     THEN [matched |-> TRUE, label |-> SubSeq(s, i, k), number |-> SubSeq(s, n1, n2)]
     ELSE NoMatch

\* trimmedLine.match(...): the leftmost match.
salesMatch(s) ==
  LET at == {i \in 1..Len(s) : MatchAt(s, i).matched}
  IN IF at = {} THEN NoMatch ELSE MatchAt(s, SetMin(at))

\* parseFloat(salesMatch[2].replace(/[,.]/g, ''))
MatchValue(number) == parseFloat(Keep(number, Digits))

\* The locals of one call.
Locals(section, s, g, c) ==
  [currentSection |-> section, sales |-> s, growth |-> g, categories |-> c]

EmptyLocals == Locals("", <<>>, <<>>, <<>>)

\* The table branch of the forEach callback.
TableRow(l, line) ==
  LET parts == Parts(line) IN
  IF ~(includes(line, "|") /\ l.currentSection # "") \/ Len(parts) < 3 THEN l
  ELSE IF l.currentSection = "sales" /\ includes(parts[1], "yue")
       THEN [l EXCEPT !.sales = @ \o RowPoints(parts, 2)]
  ELSE IF l.currentSection = "growth" /\ includes(parts[1], "yue")
       THEN [l EXCEPT !.growth = @ \o RowPoints(parts, 2)]
  ELSE IF l.currentSection = "categories" /\ ~FieldValue(parts[2]).nan
       THEN [l EXCEPT !.categories =
                        Append(@, [key |-> parts[1], value |-> FieldValue(parts[2])])]
  ELSE l

\* The pattern branch of the forEach callback.
PatternPoint(l, line) ==
  LET m == salesMatch(line) IN
  IF m.matched /\ ~MatchValue(m.number).nan
  THEN [l EXCEPT !.sales = Append(@, [key |-> m.label, value |-> MatchValue(m.number)])]
  ELSE l

\* The forEach callback on one line.
ParseLine(l, line) ==
  LET trimmedLine == trim(line)
      tagged == [l EXCEPT !.currentSection = SectionAfter(@, trimmedLine)]
  IN PatternPoint(TableRow(tagged, trimmedLine), trimmedLine)

\* lines.forEach(...) from line i on.
RECURSIVE ParseLines(_, _, _)
ParseLines(l, lines, i) ==
  IF i > Len(lines) THEN l ELSE ParseLines(ParseLine(l, lines[i]), lines, i + 1)

\* What a call hands to its caller: return { sales, growth, categories }.
Datasets(l) ==
  [returned |-> TRUE, sales |-> l.sales, growth |-> l.growth, categories |-> l.categories]

EmptyDatasets == Datasets(EmptyLocals)
NoParse == [returned |-> FALSE, sales |-> <<>>, growth |-> <<>>, categories |-> <<>>]

\* A parser without the try block lets the exception reach its caller.
OnExceptionRethrow == "throw"

\* catch (error) { console.error(...); return { sales: [], growth: [], categories: [] } }
OnException == "return empty"

\* A parser that keeps its section tag and arrays in the component reads
\* the next text with what the last one left.
InitialLocalsKept(l) == l

\* const sales = [], growth = [], categories = []; let currentSection = ''
InitialLocals(l) == EmptyLocals

\* The lines the texts are made of.
Heading(k) == <<"x", k, "x">>
Lines ==
  { <<>>,
    Heading("xiaoshoue"), Heading("zengzhanglv"), Heading("chanpin"),
    <<"1", "yue", ":", " ", "4", "2", "0", "0", "wan", "yuan">>,
    <<"2", "yue", ":", " ", "5", "8", "0", "0", "wan", "yuan">>,
    <<"3", "yue", "::", "1", ",", "2", "3", "4", ".", "5", "yuan">>,
    <<"x", ":", " ", "3", "5", "yuan">>,
    <<"x", " ", "3", "yue", " ", "4", "2", "0", "0", "yuan">>,
    <<"|", " ", "1", "yue", " ", "|", " ", "4", "2", "0", "0", " ", "|", " ", "4", "3", "0", "0", " ", "|">>,
    <<"|", " ", "1", "yue", " ", "|", " ", "4", "2", "0", "0", " ", "|">>,
    <<"|", " ", "x", " ", "|", " ", "3", "5", " ", "|", " ", "x", " ", "|">> }

\* The texts, as split('\n') sees them, and a value that is not a string
\* (the markdown field comes from the JSON of the service).
Texts == UNION {[1..n -> Lines] : n \in 1..MaxLines}
Inputs == {[isString |-> TRUE, lines |-> t] : t \in Texts}
            \cup {[isString |-> FALSE, lines |-> <<>>]}

VARIABLES
  markdown,           \* parseOCRData's argument
  index,              \* forEach's index + 1, 0 outside a call
  locals,             \* currentSection, sales, growth, categories
  parsed,             \* the value the last call returned
  raised,             \* the last call ended by an exception
  calls               \* calls of parseOCRData so far

parserVars == <<markdown, index, locals, parsed, raised, calls>>

ParserInit ==
  /\ markdown = [isString |-> TRUE, lines |-> <<>>]
  /\ index = 0
  /\ locals = EmptyLocals
  /\ parsed = NoParse
  /\ raised = FALSE
  /\ calls = 0

\* parseOCRData(input) up to the forEach: markdown.split('\n') of a value
\* that is not a string throws inside the try block.
parseOCRData_call(input) ==
  /\ index = 0
  /\ calls < MaxCalls
  /\ calls' = calls + 1
  /\ markdown' = input
  /\ IF input.isString
     THEN /\ index' = 1
          /\ locals' = InitialLocals(locals)
          /\ parsed' = NoParse
          /\ raised' = FALSE
     ELSE /\ index' = 0
          /\ locals' = locals
          /\ parsed' = IF OnException = "return empty" THEN EmptyDatasets ELSE NoParse
          /\ raised' = (OnException # "return empty")

\* One invocation of the forEach callback.
parseOCRData_line ==
  /\ index \in 1..Len(markdown.lines)
  /\ locals' = ParseLine(locals, markdown.lines[index])
  /\ index' = index + 1
  /\ UNCHANGED <<markdown, parsed, raised, calls>>

\* return { sales, growth, categories }
parseOCRData_return ==
  /\ index = Len(markdown.lines) + 1
  /\ parsed' = Datasets(locals)
  /\ index' = 0
  /\ UNCHANGED <<markdown, locals, raised, calls>>

\* ------------------------------------- DataVisualizationUpdated, the charts
\* The pending callbacks of the component (timers of the effect, requests
\* of loadResultsList) the model follows at one time.
MaxPending == 2

Point(k, v) == [key |-> k, value |-> Num(v, 0)]

\* The built-in example datasets.
mockSalesData ==
  << Point(<<"1", "yue">>, 4200), Point(<<"2", "yue">>, 5800),
     Point(<<"3", "yue">>, 7200), Point(<<"4", "yue">>, 6800),
     Point(<<"5", "yue">>, 8900), Point(<<"6", "yue">>, 9500) >>
mockGrowthData ==
  << Point(<<"1", "yue">>, 12), Point(<<"2", "yue">>, 19),
     Point(<<"3", "yue">>, 25), Point(<<"4", "yue">>, 22),
     Point(<<"5", "yue">>, 31), Point(<<"6", "yue">>, 35) >>
mockCategoryData ==
  << Point(<<"chanpin", "A">>, 35), Point(<<"chanpin", "B">>, 28),
     Point(<<"chanpin", "C">>, 22), Point(<<"chanpin", "D">>, 15) >>

\* parseOCRData as the effect calls it: the scan of all lines, and the
\* empty datasets of the catch block for a markdown that is not a string.
parseOCRData(input) ==
  IF input.isString
  THEN Datasets(ParseLines(EmptyLocals, input.lines, 1))
  ELSE EmptyDatasets

\* The ocrResult prop: absent, or an object with a markdown field (absent,
\* the empty string, a text, or a value that is not a string).
NoOcrResult == [present |-> FALSE, markdown |-> [isString |-> TRUE, lines |-> <<>>]]
OcrLines ==
  { Heading("zengzhanglv"), Heading("chanpin"),
    <<"1", "yue", ":", " ", "4", "2", "0", "0", "wan", "yuan">>,
    <<"|", " ", "1", "yue", " ", "|", " ", "4", "2", "0", "0", " ", "|", " ", "4", "3", "0", "0", " ", "|">> }
OcrResults ==
  {[present |-> TRUE, markdown |-> [isString |-> TRUE, lines |-> t]] :
     t \in {<<>>, << <<>> >>} \cup UNION {[1..n -> OcrLines] : n \in 1..MaxLines}}
  \cup {[present |-> TRUE, markdown |-> [isString |-> FALSE, lines |-> <<>>]]}

\* parseOCRData(ocrResult.markdown) for each result, computed once.
ParsedOf == [r \in OcrResults |-> parseOCRData(r.markdown)]

\* ocrResult && ocrResult.markdown: an absent field and the empty string
\* are falsy.
HasMarkdown(r) ==
  r.present /\ (~r.markdown.isString \/ r.markdown.lines \notin {<<>>, << <<>> >>})

VARIABLES
  ocrResult,          \* the prop
  useOCRData,
  salesData, growthData, categoryData,
  isLoading,
  loadingTimers,      \* pending setTimeout(() => setIsLoading(false), 500)
  listRequests        \* pending getResultsList() calls

viewVars == <<ocrResult, useOCRData, salesData, growthData, categoryData,
              isLoading, loadingTimers, listRequests>>

ViewInit ==
  /\ ocrResult = NoOcrResult
  /\ useOCRData = FALSE
  /\ salesData = mockSalesData
  /\ growthData = mockGrowthData
  /\ categoryData = mockCategoryData
  /\ isLoading = FALSE
  /\ loadingTimers = 0
  /\ listRequests = 0

\* A page without DataVisualizationUpdated holds no state of it.
ViewAbsent ==
  /\ ocrResult = NoOcrResult
  /\ useOCRData = FALSE
  /\ salesData = <<>>
  /\ growthData = <<>>
  /\ categoryData = <<>>
  /\ isLoading = FALSE
  /\ loadingTimers = 0
  /\ listRequests = 0

\* A display that takes the parsed dataset whatever its length.
DisplayedAsParsed(parsedSet, mock) == parsedSet

\* parsedData.sales.length > 0 ? parsedData.sales : mockSalesData
Displayed(parsedSet, mock) == IF Len(parsedSet) > 0 THEN parsedSet ELSE mock

\* if (ocrResult && ocrResult.markdown && useOCRData)
EffectRuns(r, use) == HasMarkdown(r) /\ use

\* The effect on [ocrResult, useOCRData], run after a render in which one of
\* the two changed.
ExtractionEffect(r, use) ==
  IF EffectRuns(r, use)
  THEN LET parsedData == ParsedOf[r] IN
       /\ loadingTimers < MaxPending
       /\ isLoading' = TRUE
       /\ salesData' = Displayed(parsedData.sales, mockSalesData)
       /\ growthData' = Displayed(parsedData.growth, mockGrowthData)
       /\ categoryData' = Displayed(parsedData.categories, mockCategoryData)
       /\ loadingTimers' = loadingTimers + 1
  ELSE UNCHANGED <<salesData, growthData, categoryData, isLoading, loadingTimers>>

\* The parent renders the component with a new ocrResult.
DVU_ocrResult(r) ==
  /\ ocrResult' = r
  /\ ExtractionEffect(r, useOCRData)
  /\ UNCHANGED <<useOCRData, listRequests>>

\* handleRefreshData, with the effect its state change triggers.
DVU_handleRefreshData ==
  /\ listRequests < MaxPending
  /\ listRequests' = listRequests + 1
  /\ IF HasMarkdown(ocrResult)
     THEN /\ useOCRData' = ~useOCRData
          /\ ExtractionEffect(ocrResult, ~useOCRData)
     ELSE UNCHANGED <<useOCRData, salesData, growthData, categoryData,
                      isLoading, loadingTimers>>
  /\ UNCHANGED ocrResult

\* setTimeout(() => setIsLoading(false), 500)
DVU_loadingTimer ==
  /\ loadingTimers > 0
  /\ loadingTimers' = loadingTimers - 1
  /\ isLoading' = FALSE
  /\ UNCHANGED <<ocrResult, useOCRData, salesData, growthData, categoryData, listRequests>>

\* loadResultsList resumes after getResultsList(): the list it stores, or
\* the error it logs, is read by no other part of the model.
DVU_resultsListResponse ==
  /\ listRequests > 0
  /\ listRequests' = listRequests - 1
  /\ UNCHANGED <<ocrResult, useOCRData, salesData, growthData, categoryData,
                 isLoading, loadingTimers>>

\* ------------------------------------------------------ ChatAssistantUpdated
MaxSends == 2         \* questions sent in one session

\* A message of the transcript. The field about is not part of the program's
\* data: it records the question or the upload the message was added for.
ChatMessage(type, content, about) == [type |-> type, content |-> content, about |-> about]

\* The questions, by the keyword branch of the reply they select.
Questions == {"fenxi", "baogao", "bangzhu", "other"}

\* The reply the timer adds for a question.
Response(q) ==
  IF q = "fenxi" THEN "see the charts"
  ELSE IF q = "baogao" THEN "report is ready"
  ELSE IF q = "bangzhu" THEN "what I can do"
  ELSE "question received"

\* prev.slice(0, -1)
DropLast(msgs) == SubSeq(msgs, 1, Len(msgs) - 1)

\* What the await of the OCR call produces: a result with one of the three
\* status values (any other status is handled like error), or an exception.
OcrOutcomes == {"success", "processing", "error", "throw"}

VARIABLES
  sendTimers,         \* pending 1500 ms timers of handleSend, oldest first
  sends,              \* questions sent so far
  chatOcrResult       \* ChatAssistantUpdated's ocrResult state is set

updatedVars == <<sendTimers, sends, chatOcrResult>>

UpdatedInit ==
  /\ sendTimers = <<>>
  /\ sends = 0
  /\ chatOcrResult = FALSE

\* What ChatAssistantUpdated never touches.
updatedIdle == <<ui, mounted, taskId, attempts, runResults, inflight, dvaState,
                 currentTask, processedResults, runResult, runError, runLog>>

\* handleSend with a non-blank input; the input and the button are disabled
\* while isProcessing.
ChatU_handleSend(q) ==
  /\ ui = ChatU /\ mounted /\ ~isProcessing
  /\ sends < MaxSends
  /\ sends' = sends + 1
  /\ messages' = messages \o << ChatMessage("user", q, sends + 1),
                                ChatMessage("assistant", "analysing your question", sends + 1) >>
  /\ sendTimers' = Append(sendTimers, [about |-> sends + 1, question |-> q])
  /\ UNCHANGED <<uploads, pc, isProcessing, uploadedFile, chatOcrResult, updatedIdle>>

\* The timer of the oldest pending question (equal delays fire in the order
\* the timers were set).
ChatU_sendTimer ==
  /\ ui = ChatU /\ mounted
  /\ sendTimers # <<>>
  /\ LET t == Head(sendTimers) IN
     messages' = Append(DropLast(messages),
                        ChatMessage("assistant", Response(t.question), t.about))
  /\ sendTimers' = Tail(sendTimers)
  /\ UNCHANGED <<uploads, pc, isProcessing, uploadedFile, sends, chatOcrResult, updatedIdle>>

\* handleFileUpload up to its await. The label of the file input is shown
\* only while no file is held and no run is in progress.
ChatU_handleFileUpload(f) ==
  /\ ui = ChatU /\ mounted /\ ~isProcessing
  /\ uploadedFile = "null"
  /\ uploads < MaxUploads
  /\ uploads' = uploads + 1
  /\ IF ~validateFileType(f)
     THEN /\ messages' = Append(messages, ChatMessage("system", "format not supported", 0))
          /\ UNCHANGED <<pc, isProcessing, uploadedFile>>
     ELSE IF ~validateFileSize(f)
     THEN /\ messages' = Append(messages, ChatMessage("system", "file too large", 0))
          /\ UNCHANGED <<pc, isProcessing, uploadedFile>>
     ELSE /\ uploadedFile' = f.ext
          /\ isProcessing' = TRUE
          /\ messages' = messages \o << ChatMessage("user", "upload file", uploads + 1),
                                        ChatMessage("assistant", "processing the document", uploads + 1) >>
          /\ pc' = "ocr"
  /\ UNCHANGED <<sendTimers, sends, chatOcrResult, updatedIdle>>

\* The catch block of handleFileUpload.
CatchUpload(msgs, n) ==
  Append(DropLast(msgs), ChatMessage("system", "processing failed", n))

\* handleFileUpload from its await to its end.
ChatU_OCRResponse(outcome) ==
  /\ ui = ChatU /\ mounted
  /\ pc = "ocr"
  /\ pc' = "idle"
  /\ isProcessing' = FALSE
  /\ chatOcrResult' = (chatOcrResult \/ outcome = "success")
  /\ messages' =
       CASE outcome = "throw" -> CatchUpload(messages, uploads)
         [] outcome = "success" ->
              Append(DropLast(messages), ChatMessage("assistant", "document processed", uploads))
         [] outcome = "processing" ->
              Append(DropLast(messages), ChatMessage("assistant", "submitted", uploads))
         [] OTHER -> CatchUpload(DropLast(messages), uploads)
  /\ UNCHANGED <<uploads, uploadedFile, sendTimers, sends, updatedIdle>>

\* handleRetryOCR up to its await; its button is shown with an OCR result
\* and disabled while isProcessing.
ChatU_handleRetryOCR ==
  /\ ui = ChatU /\ mounted /\ ~isProcessing
  /\ chatOcrResult /\ uploadedFile # "null"
  /\ uploads < MaxUploads
  /\ uploads' = uploads + 1
  /\ isProcessing' = TRUE
  /\ pc' = "retry"
  /\ UNCHANGED <<messages, uploadedFile, sendTimers, sends, chatOcrResult, updatedIdle>>

\* handleRetryOCR from its await to its end.
ChatU_RetryResponse(outcome) ==
  /\ ui = ChatU /\ mounted
  /\ pc = "retry"
  /\ pc' = "idle"
  /\ isProcessing' = FALSE
  /\ messages' =
       CASE outcome = "throw" -> Append(messages, ChatMessage("system", "retry failed", uploads))
         [] outcome = "success" -> Append(messages, ChatMessage("assistant", "retry succeeded", uploads))
         [] OTHER -> messages
  /\ UNCHANGED <<uploads, uploadedFile, sendTimers, sends, chatOcrResult, updatedIdle>>

\* ------------------------------------------------ ChatAssistant.handleSend
\* if (!currentTask || !currentTask.task_id): a status snapshot carries the
\* task_id of the task it was requested for (TaskStatus.task_id).
HasTaskId(snapshot) == snapshot # NoSnapshot

VARIABLES
  analyzeLog,         \* POST /analyze requests issued: task id, state of the
                      \* run and status of currentTask when it was sent
  analyzePending      \* POST /analyze requests awaiting their response

askVars == <<analyzeLog, analyzePending>>

AskInit ==
  /\ analyzeLog = <<>>
  /\ analyzePending = 0

\* handleSend with a non-blank input, up to its await. The chat input is
\* not disabled during a run.
Chat_handleSend ==
  /\ ui = Chat /\ mounted
  /\ sends < MaxSends
  /\ sends' = sends + 1
  /\ IF ~HasTaskId(currentTask)
     THEN /\ messages' = messages \o
                << Message("user", [tmpl |-> "question", arg |-> sends + 1], 0, FALSE),
                   Message("assistant", [tmpl |-> "upload a document and wait", arg |-> 0], 0, FALSE) >>
          /\ UNCHANGED askVars
     ELSE /\ messages' = messages \o
                << Message("user", [tmpl |-> "question", arg |-> sends + 1], 0, FALSE),
                   Message("assistant", [tmpl |-> "question received, analysing", arg |-> 0], 0, FALSE) >>
          /\ analyzeLog' = Append(analyzeLog, [task |-> deliveredTask, run |-> runResult,
                                             status |-> currentTask.status])
          /\ analyzePending' = analyzePending + 1
  /\ UNCHANGED <<ui, mounted, uploads, pc, taskId, attempts, runResults, inflight,
                 isProcessing, dvaState, currentTask, processedResults, uploadedFile,
                 runResult, runError, runLog, sendTimers, chatOcrResult>>

\* handleSend from its await: the result message, or the failure message.
Chat_AnalyzeResponse(resp) ==
  /\ ui = Chat
  /\ analyzePending > 0
  /\ analyzePending' = analyzePending - 1
  /\ messages' =
       IF ~mounted THEN messages
       ELSE IF ResponseOk(resp.code)
       THEN Append(messages, Message("assistant", [tmpl |-> "analysis completed", arg |-> 0], 0, FALSE))
       ELSE Append(messages, Message("assistant", [tmpl |-> "analysis failed: %s", arg |-> resp.code], 0, FALSE))
  /\ UNCHANGED <<ui, mounted, uploads, pc, taskId, attempts, runResults, inflight,
                 isProcessing, dvaState, currentTask, processedResults, uploadedFile,
                 runResult, runError, runLog, updatedVars, analyzeLog>>

\* ------------------------------------------------------------ downloadFile
\* a.download = `${fileType}_${taskId}.${fileType}`
Filename(fileType, t) == [prefix |-> fileType, task |-> t, ext |-> fileType]

\* handleDownload's fileType: 'json' | 'html'
FileTypes == {"json", "html"}

\* downloadFile: `download failed: ${response.status}`.
DownloadFailure(code) ==
  IF code = 0 THEN NetworkError ELSE [tmpl |-> "download failed: %s", arg |-> code]

\* A download that does not test the response saves the body of an error
\* response as the file.
SavesOnAnyResponse(code) == code # 0

\* if (!response.ok) throw ...; otherwise the blob is saved.
SavesOn(code) == ResponseOk(code)

VARIABLES
  downloadCalls,      \* calls of downloadFile so far
  downloading,        \* calls of downloadFile awaiting their response
  downloadLog,        \* per call: task id, file type, response, outcome, error
  saved,              \* the save actions (a.click()), in order
  downloadAlerts      \* alerts of handleDownload's catch

downloadVars == <<downloadCalls, downloading, downloadLog, saved, downloadAlerts>>

DownloadInit ==
  /\ downloadCalls = 0
  /\ downloading = {}
  /\ downloadLog = <<>>
  /\ saved = <<>>
  /\ downloadAlerts = 0

\* DataVisualizationAdvanced.handleDownload up to the await of the fetch.
\* A handler without the guard asks for a file of no task.
DownloadsWithoutTask(id) == TRUE

\* if (!currentTaskId) return;
DownloadsWith(id) == id # NoTask

DVA_handleDownload(fileType) ==
  /\ ui = DVA /\ mounted
  /\ downloadCalls < MaxDownloads
  /\ IF ~DownloadsWith(currentTaskId)
     THEN UNCHANGED downloadVars
     ELSE /\ downloadCalls' = downloadCalls + 1
          /\ downloading' = downloading \cup
               {[task |-> currentTaskId, fileType |-> fileType, n |-> downloadCalls + 1]}
          /\ downloadLog' = Append(downloadLog,
               [task |-> currentTaskId, fileType |-> fileType,
                code |-> -1, outcome |-> "pending", error |-> NoError])
          /\ UNCHANGED <<saved, downloadAlerts>>

\* The fetch of downloadFile is answered: the file is saved, or the call
\* rejects and handleDownload's catch shows its alert.
DownloadResponse(resp) ==
  LET code == resp.code IN
  \E d \in downloading :
    /\ downloading' = downloading \ {d}
    /\ IF SavesOn(code)
       THEN /\ saved' = Append(saved, [name |-> Filename(d.fileType, d.task), call |-> d.n])
            /\ downloadLog' = [downloadLog EXCEPT ![d.n].code = code,
                                                  ![d.n].outcome = "resolved"]
            /\ UNCHANGED downloadAlerts
       ELSE /\ downloadLog' = [downloadLog EXCEPT ![d.n].code = code,
                                                  ![d.n].outcome = "rejected",
                                                  ![d.n].error = DownloadFailure(code)]
            /\ downloadAlerts' = downloadAlerts + 1
            /\ UNCHANGED saved
    /\ UNCHANGED downloadCalls


\* ------------------------------------------------------- specifications
\* What a step of one component leaves alone.
laterVars == <<viewVars, updatedVars, askVars>>
LaterInit == ViewAbsent /\ UpdatedInit /\ AskInit

Elsewhere(others) == UNCHANGED others /\ UNCHANGED laterVars

allVars == <<vars, parserVars, downloadVars, laterVars>>

Next ==
  \/ \E f \in Files : DVA_handleFileUpload(f) /\ Elsewhere(<<parserVars, downloadVars>>)
  \/ \E resp \in UploadResponses : UploadResponse(resp) /\ Elsewhere(<<parserVars, downloadVars>>)
  \/ \E resp \in StatusResponses : StatusResponse(resp) /\ Elsewhere(<<parserVars, downloadVars>>)
  \/ TimerFires /\ Elsewhere(<<parserVars, downloadVars>>)
  \/ \E resp \in PlainResponses : DVA_ResultsResponse(resp) /\ Elsewhere(<<parserVars, downloadVars>>)
  \/ \E resp \in PlainResponses : DVA_ReportResponse(resp) /\ Elsewhere(<<parserVars, downloadVars>>)
  \/ Unmount /\ Elsewhere(<<parserVars, downloadVars>>)

\* The page with DataVisualizationAdvanced, over advanced_api.ts.
InitDVA == Init /\ ui = DVA /\ ParserInit /\ DownloadInit /\ LaterInit

Spec == InitDVA /\ [][Next]_allVars

NextChat ==
  \/ \E f \in Files : Chat_handleFileUpload(f) /\ Elsewhere(<<parserVars, downloadVars>>)
  \/ \E resp \in UploadResponses : UploadResponse(resp) /\ Elsewhere(<<parserVars, downloadVars>>)
  \/ \E resp \in StatusResponses : StatusResponse(resp) /\ Elsewhere(<<parserVars, downloadVars>>)
  \/ TimerFires /\ Elsewhere(<<parserVars, downloadVars>>)
  \/ \E resp \in PlainResponses : Chat_ResultsResponse(resp) /\ Elsewhere(<<parserVars, downloadVars>>)
  \/ Chat_reupload /\ Elsewhere(<<parserVars, downloadVars>>)
  \/ Unmount /\ Elsewhere(<<parserVars, downloadVars>>)

\* The page with ChatAssistant.
InitChat == Init /\ ui = Chat /\ ParserInit /\ DownloadInit /\ LaterInit

ChatSpec == InitChat /\ [][NextChat]_allVars

\* One processing run of ChatAssistant followed beyond the number of polls
\* at which advanced_api's loop gives up.
NextChatLong ==
  \/ \E f \in Files : uploads = 0 /\ Chat_handleFileUpload(f) /\ Elsewhere(<<parserVars, downloadVars>>)
  \/ \E resp \in UploadResponses : UploadResponse(resp) /\ Elsewhere(<<parserVars, downloadVars>>)
  \/ \E resp \in StatusResponses : StatusResponse(resp) /\ Elsewhere(<<parserVars, downloadVars>>)
  \/ TimerFiresWithin(maxAttempts + PollCap) /\ Elsewhere(<<parserVars, downloadVars>>)
  \/ \E resp \in PlainResponses : Chat_ResultsResponse(resp) /\ Elsewhere(<<parserVars, downloadVars>>)
  \/ Unmount /\ Elsewhere(<<parserVars, downloadVars>>)

ChatLongSpec == InitChat /\ [][NextChatLong]_allVars

\* One processing run of DataVisualizationAdvanced, followed for its first
\* PollCap delays, and the downloads of its results.
NextDownload ==
  \/ \E f \in Files : uploads = 0 /\ DVA_handleFileUpload(f) /\ Elsewhere(<<parserVars, downloadVars>>)
  \/ \E resp \in UploadResponses : UploadResponse(resp) /\ Elsewhere(<<parserVars, downloadVars>>)
  \/ \E resp \in StatusResponses : StatusResponse(resp) /\ Elsewhere(<<parserVars, downloadVars>>)
  \/ attempts < PollCap /\ TimerFires /\ Elsewhere(<<parserVars, downloadVars>>)
  \/ \E resp \in PlainResponses : DVA_ResultsResponse(resp) /\ Elsewhere(<<parserVars, downloadVars>>)
  \/ \E resp \in PlainResponses : DVA_ReportResponse(resp) /\ Elsewhere(<<parserVars, downloadVars>>)
  \/ Unmount /\ Elsewhere(<<parserVars, downloadVars>>)
  \/ \E fileType \in FileTypes : DVA_handleDownload(fileType) /\ Elsewhere(<<vars, parserVars>>)
  \/ \E resp \in PlainResponses : DownloadResponse(resp) /\ Elsewhere(<<vars, parserVars>>)

DownloadSpec == InitDVA /\ [][NextDownload]_allVars

\* A session on either page, each run followed for its first PollCap delays.
NextSession ==
  \/ \E f \in Files : DVA_handleFileUpload(f) /\ Elsewhere(<<parserVars, downloadVars>>)
  \/ \E f \in Files : Chat_handleFileUpload(f) /\ Elsewhere(<<parserVars, downloadVars>>)
  \/ \E resp \in UploadResponses : UploadResponse(resp) /\ Elsewhere(<<parserVars, downloadVars>>)
  \/ \E resp \in StatusResponses : StatusResponse(resp) /\ Elsewhere(<<parserVars, downloadVars>>)
  \/ attempts < PollCap /\ TimerFires /\ Elsewhere(<<parserVars, downloadVars>>)
  \/ \E resp \in PlainResponses : DVA_ResultsResponse(resp) /\ Elsewhere(<<parserVars, downloadVars>>)
  \/ \E resp \in PlainResponses : DVA_ReportResponse(resp) /\ Elsewhere(<<parserVars, downloadVars>>)
  \/ \E resp \in PlainResponses : Chat_ResultsResponse(resp) /\ Elsewhere(<<parserVars, downloadVars>>)
  \/ Chat_reupload /\ Elsewhere(<<parserVars, downloadVars>>)
  \/ Unmount /\ Elsewhere(<<parserVars, downloadVars>>)

InitSession == Init /\ ui \in {DVA, Chat} /\ ParserInit /\ DownloadInit /\ LaterInit

SessionSpec == InitSession /\ [][NextSession]_allVars

\* Calls of DataVisualizationUpdated.parseOCRData, one after the other.
NextParser ==
  \/ \E input \in Inputs : parseOCRData_call(input) /\ Elsewhere(<<vars, downloadVars>>)
  \/ parseOCRData_line /\ Elsewhere(<<vars, downloadVars>>)
  \/ parseOCRData_return /\ Elsewhere(<<vars, downloadVars>>)

InitDVU == Init /\ ui = DVU /\ ParserInit /\ DownloadInit /\ LaterInit

ParserSpec == InitDVU /\ [][NextParser]_allVars

\* The charts of DataVisualizationUpdated under any sequence of OCR results
\* and data-source toggles.
Rest(others) == UNCHANGED others

NextView ==
  \/ \E r \in OcrResults \cup {NoOcrResult} :
       DVU_ocrResult(r) /\ Rest(<<vars, parserVars, downloadVars, updatedVars, askVars>>)
  \/ DVU_handleRefreshData /\ Rest(<<vars, parserVars, downloadVars, updatedVars, askVars>>)
  \/ DVU_loadingTimer /\ Rest(<<vars, parserVars, downloadVars, updatedVars, askVars>>)
  \/ DVU_resultsListResponse /\ Rest(<<vars, parserVars, downloadVars, updatedVars, askVars>>)

InitView ==
  Init /\ ui = DVU /\ ParserInit /\ DownloadInit /\ ViewInit /\ UpdatedInit /\ AskInit

ViewSpec == InitView /\ [][NextView]_allVars

\* DataVisualizationAdvanced over several uploads, with downloads.
NextHistory ==
  \/ \E f \in Files : DVA_handleFileUpload(f) /\ Elsewhere(<<parserVars, downloadVars>>)
  \/ \E resp \in UploadResponses : UploadResponse(resp) /\ Elsewhere(<<parserVars, downloadVars>>)
  \/ \E resp \in StatusResponses : StatusResponse(resp) /\ Elsewhere(<<parserVars, downloadVars>>)
  \/ attempts < PollCap /\ TimerFires /\ Elsewhere(<<parserVars, downloadVars>>)
  \/ \E resp \in PlainResponses : DVA_ResultsResponse(resp) /\ Elsewhere(<<parserVars, downloadVars>>)
  \/ \E resp \in PlainResponses : DVA_ReportResponse(resp) /\ Elsewhere(<<parserVars, downloadVars>>)
  \/ Unmount /\ Elsewhere(<<parserVars, downloadVars>>)
  \/ \E fileType \in FileTypes : DVA_handleDownload(fileType) /\ Elsewhere(<<vars, parserVars>>)
  \/ \E resp \in PlainResponses : DownloadResponse(resp) /\ Elsewhere(<<vars, parserVars>>)

HistorySpec == InitDVA /\ [][NextHistory]_allVars

\* ChatAssistant with one upload and one question, asked at any time.
NextAsk ==
  \/ \E f \in Files : uploads = 0 /\ Chat_handleFileUpload(f) /\ Elsewhere(<<parserVars, downloadVars>>)
  \/ \E resp \in UploadResponses : UploadResponse(resp) /\ Elsewhere(<<parserVars, downloadVars>>)
  \/ \E resp \in StatusResponses : StatusResponse(resp) /\ Elsewhere(<<parserVars, downloadVars>>)
  \/ TimerFires /\ Elsewhere(<<parserVars, downloadVars>>)
  \/ \E resp \in PlainResponses : Chat_ResultsResponse(resp) /\ Elsewhere(<<parserVars, downloadVars>>)
  \/ Unmount /\ Elsewhere(<<parserVars, downloadVars>>)
  \/ sends = 0 /\ Chat_handleSend /\ Rest(<<parserVars, downloadVars, viewVars>>)
  \/ \E resp \in PlainResponses : Chat_AnalyzeResponse(resp) /\ Rest(<<parserVars, downloadVars, viewVars>>)

AskSpec == InitChat /\ [][NextAsk]_allVars

\* The processing runs of the three upload handlers: DataVisualizationAdvanced
\* with one run polled up to its timeout, ChatAssistant, and
\* ChatAssistantUpdated (modelled while it stays on the page).
NextRuns ==
  \/ \E f \in Files : uploads = 0 /\ DVA_handleFileUpload(f) /\ Elsewhere(<<parserVars, downloadVars>>)
  \/ \E f \in Files : Chat_handleFileUpload(f) /\ Elsewhere(<<parserVars, downloadVars>>)
  \/ \E resp \in UploadResponses : UploadResponse(resp) /\ Elsewhere(<<parserVars, downloadVars>>)
  \/ \E resp \in StatusResponses : StatusResponse(resp) /\ Elsewhere(<<parserVars, downloadVars>>)
  \/ TimerFires /\ Elsewhere(<<parserVars, downloadVars>>)
  \/ \E resp \in PlainResponses : DVA_ResultsResponse(resp) /\ Elsewhere(<<parserVars, downloadVars>>)
  \/ \E resp \in PlainResponses : DVA_ReportResponse(resp) /\ Elsewhere(<<parserVars, downloadVars>>)
  \/ \E resp \in PlainResponses : Chat_ResultsResponse(resp) /\ Elsewhere(<<parserVars, downloadVars>>)
  \/ Chat_reupload /\ Elsewhere(<<parserVars, downloadVars>>)
  \/ ui # ChatU /\ Unmount /\ Elsewhere(<<parserVars, downloadVars>>)
  \/ sends = 0 /\ ChatU_handleSend("other") /\ Rest(<<parserVars, downloadVars, viewVars, askVars>>)
  \/ ChatU_sendTimer /\ Rest(<<parserVars, downloadVars, viewVars, askVars>>)
  \/ \E f \in Files : ChatU_handleFileUpload(f) /\ Rest(<<parserVars, downloadVars, viewVars, askVars>>)
  \/ \E o \in OcrOutcomes : ChatU_OCRResponse(o) /\ Rest(<<parserVars, downloadVars, viewVars, askVars>>)
  \/ ChatU_handleRetryOCR /\ Rest(<<parserVars, downloadVars, viewVars, askVars>>)
  \/ \E o \in OcrOutcomes : ChatU_RetryResponse(o) /\ Rest(<<parserVars, downloadVars, viewVars, askVars>>)

InitRuns == Init /\ ui \in {DVA, Chat, ChatU} /\ ParserInit /\ DownloadInit /\ LaterInit

RunsSpec == InitRuns /\ [][NextRuns]_allVars

\* ChatAssistantUpdated: questions, their timers, uploads and retries.
NextUpdated ==
  \/ \E q \in Questions : ChatU_handleSend(q) /\ Rest(<<parserVars, downloadVars, viewVars, askVars>>)
  \/ ChatU_sendTimer /\ Rest(<<parserVars, downloadVars, viewVars, askVars>>)
  \/ \E f \in Files : ChatU_handleFileUpload(f) /\ Rest(<<parserVars, downloadVars, viewVars, askVars>>)
  \/ \E o \in OcrOutcomes : ChatU_OCRResponse(o) /\ Rest(<<parserVars, downloadVars, viewVars, askVars>>)
  \/ ChatU_handleRetryOCR /\ Rest(<<parserVars, downloadVars, viewVars, askVars>>)
  \/ \E o \in OcrOutcomes : ChatU_RetryResponse(o) /\ Rest(<<parserVars, downloadVars, viewVars, askVars>>)

InitUpdated == Init /\ ui = ChatU /\ ParserInit /\ DownloadInit /\ LaterInit

UpdatedSpec == InitUpdated /\ [][NextUpdated]_allVars

\* ------------------------------------------------------------------ types
TypeOK ==
  /\ ui \in Components
  /\ mounted \in BOOLEAN
  /\ uploads \in 0..MaxUploads
  /\ pc \in {"idle", "upload", "status", "sleep", "results", "report", "ocr", "retry"}
  /\ taskId \in TaskIds \cup {NoTask}
  /\ attempts \in 0..maxAttempts
  /\ isProcessing \in BOOLEAN
  /\ taskStatus \in Snapshots \cup {NoSnapshot}
  /\ currentTask \in Snapshots \cup {NoSnapshot}
  /\ delivered \in Snapshots \cup {NoSnapshot}
  /\ runResult \in {"none", "pending", "resolved", "rejected"}
  /\ Cardinality(inflight) <= 1
  /\ (mounted /\ ~isProcessing) => pc = "idle"

\* ----------------------------------------------------------------- claims
\* The claims below are checked under Spec: the poll run of
\* advanced_api.pollTaskUntilComplete, called by processDocument with its
\* default arguments.

\* C1: with the default arguments the run issues at most 150 getTaskStatus
\* requests; when no snapshot is terminal, the 150th delay is followed by
\* the rejection with the timeout error and by no further request.
C1_PollingIsCapped ==
  /\ statusRequests <= maxAttempts
  /\ attempts <= maxAttempts
  /\ attempts = maxAttempts =>
       /\ pc = "idle"
       /\ runResult = "rejected"
       /\ runError = TimeoutError
       /\ inflight = {}
  /\ runError = TimeoutError =>
       /\ statusRequests = maxAttempts
       /\ progressCalls = maxAttempts
       /\ ~IsTerminal(delivered.status)

C1_Witness ==
  /\ runResult = "rejected"
  /\ runError = TimeoutError
  /\ statusRequests = maxAttempts

\* C2: a snapshot with status error ends the run with an error whose
\* message is the message of that snapshot; the snapshot answered the last
\* status request of the run and no results request is issued.
C2_JobErrorSurfaced ==
  delivered.status = "error" =>
    /\ pc = "idle"
    /\ runResult = "rejected"
    /\ runError = [tmpl |-> "%s", arg |-> delivered.message]
    /\ inflight = {}
    /\ statusRequests = progressCalls
    /\ resultsRequests = 0

C2_Witness ==
  /\ delivered.status = "error"
  /\ runResult = "rejected"
  /\ progressCalls >= 2

\* C3: a GET /results request is issued only after a snapshot with status
\* completed was delivered for the same task id; a run that ended by a job
\* error, a failed poll or the timeout has issued none.
C3_ResultsOnlyAfterCompleted ==
  /\ resultsRequests <= 1
  /\ resultsRequests > 0 =>
       /\ delivered.status = "completed"
       /\ deliveredTask = resultsTask
       /\ resultsTask = taskId
  /\ \A r \in inflight : r.kind = "results" =>
       /\ delivered.status = "completed"
       /\ r.task = deliveredTask
  /\ (delivered.status = "error" \/ failedPoll # -1 \/ runError = TimeoutError) =>
       resultsRequests = 0

C3_Witness ==
  /\ resultsRequests = 1
  /\ progressCalls >= 2
  /\ \E r \in inflight : r.kind = "results"

\* C4: once a terminal snapshot of a task id has been observed, no later
\* snapshot with a non-terminal status is applied to the displayed task
\* state.  The component holds the results of task t only after it observed
\* the completed snapshot of t, so while it holds them the status displayed
\* for t would have to be terminal.
C4_TerminalNotOverwritten ==
  \A t \in TaskIds :
    (/\ processingResults = [src |-> "results", task |-> t]
     /\ taskId = t
     /\ taskStatus # NoSnapshot)
    => IsTerminal(taskStatus.status)

\* C5: the status values delivered to the observer during one run never
\* decrease in the order pending < ocr_processing < analyzing < visualizing
\* < {completed, error}.
C5_StatusNonDecreasing ==
  [][(progressCalls' = progressCalls + 1 /\ delivered # NoSnapshot)
       => Rank(delivered'.status) >= Rank(delivered.status)]_vars

\* C6: the progress value of the displayed task state never decreases from
\* one snapshot of a task to the next.
C6_ProgressNonDecreasing ==
  [][(taskStatus # NoSnapshot /\ taskStatus' # NoSnapshot)
       => taskStatus'.progress >= taskStatus.progress]_vars

\* C7: two consecutive invocations of onProgress never carry the same
\* (status, progress, message) triple.
C7_NoDuplicateProgress ==
  [][(progressCalls' = progressCalls + 1 /\ delivered # NoSnapshot)
       => <<delivered'.status, delivered'.progress, delivered'.message>>
            # <<delivered.status, delivered.progress, delivered.message>>]_vars

C9_OnePollOutstanding ==
  [][/\ Cardinality(StatusInflight') <= 1
     /\ statusRequests' = statusRequests + 1 =>
          /\ StatusInflight = {}
          /\ pc \in {"upload", "sleep"}]_vars

C9_Witness ==
  /\ statusRequests >= 2
  /\ Cardinality(StatusInflight) = 1

\* C10: once the component that owns the run has gone away, the run issues
\* no status request and does not invoke onProgress.
C10_AbandonedRunIsSilent ==
  [][~mounted => /\ statusRequests' = statusRequests
                 /\ progressCalls' = progressCalls]_vars

\* The claims below on ChatAssistant are checked under ChatSpec, and under
\* ChatLongSpec where the length of the loop matters.

\* C11: the poll loop of ChatAssistant issues at most 150 status requests
\* in one run (and then fails with a timeout error).
C11_ChatPollingIsCapped ==
  ui = Chat => statusRequests <= maxAttempts

\* The claims below on parseOCRData are checked under ParserSpec.
Keywords == SalesKeywords \cup GrowthKeywords \cup CategoryKeywords

\* No line of the text has a section keyword, a "|" or a match of the
\* label-colon-number-unit pattern.
Unstructured(input) ==
  /\ input.isString
  /\ \A i \in 1..Len(input.lines) :
       /\ \A k \in Keywords : ~includes(input.lines[i], k)
       /\ ~includes(input.lines[i], "|")
       /\ ~salesMatch(trim(input.lines[i])).matched

\* C12: no call of parseOCRData ends by an exception (a value that is not
\* a string gives three empty datasets), and a call on a text without
\* section keyword, "|" and pattern match returns three empty datasets.
C12_NeverRaises ==
  /\ ~raised
  /\ ~markdown.isString => parsed = EmptyDatasets
  /\ (parsed.returned /\ Unstructured(markdown)) => parsed = EmptyDatasets

C12_Witness ==
  /\ parsed.returned
  /\ Unstructured(markdown)
  /\ Len(markdown.lines) = 2
  /\ \A i \in 1..2 : includes(markdown.lines[i], "yuan")

\* A number as it is written: digits, thousands separators, at most one
\* decimal point; and the number it denotes.
IsNumeral(s) ==
  /\ \E i \in 1..Len(s) : s[i] \in Digits
  /\ \A i \in 1..Len(s) : s[i] \in Digits \cup {",", "."}
  /\ Cardinality({i \in 1..Len(s) : s[i] = "."}) <= 1

NumeralValue(s) == parseFloat(Keep(s, Digits \cup {"."}))

Units == {<<"wan", "yuan">>, <<"yuan">>, <<"wan">>}

\* A label as in "1 yue": digits, then the month sign or nothing.
IsLabel(s) ==
  /\ s # <<>> /\ s[1] \in Digits
  /\ \A i \in 1..Len(s) : s[i] \in Digits \/ (i = Len(s) /\ s[i] = "yue")

\* The line reads <label> colon <number> <unit>.
LabelledValues(line) ==
  LET t == trim(line) IN
  {lv \in [label : {SubSeq(t, 1, c - 1) : c \in 2..Len(t)},
           number : {SubSeq(t, a, b) : a \in 1..Len(t), b \in 1..Len(t)},
           unit : Units] :
     /\ IsLabel(lv.label)
     /\ IsNumeral(lv.number)
     /\ \E colon \in {<<":">>, <<"::">>}, gap \in {<<>>, <<" ">>} :
          t = lv.label \o colon \o gap \o lv.number \o lv.unit}

\* C13: a line <label> colon <number> <unit> adds exactly one point to the
\* sales dataset, with the label as category and the number as value,
\* whatever the section tag is; the points keep the order of the lines.
C13_PatternLineIsSalesPoint ==
  [][(index \in 1..Len(markdown.lines) /\ index' = index + 1) =>
       \A lv \in LabelledValues(markdown.lines[index]) :
         locals'.sales = Append(locals.sales,
                                [key |-> lv.label, value |-> NumeralValue(lv.number)])
    ]_parserVars

\* C14: under a sales heading a "|"-delimited row (of a month, as in the
\* example of the claim) adds to the sales dataset one point per numeric
\* column, in column order, each with the first field of the row as
\* category; nothing is deduplicated.
C14_SalesRowPoints ==
  [][(/\ index \in 1..Len(markdown.lines) /\ index' = index + 1
      /\ locals.currentSection = "sales"
      /\ SectionAfter("sales", markdown.lines[index]) = "sales"
      /\ includes(markdown.lines[index], "|")
      /\ Parts(trim(markdown.lines[index])) # <<>>
      /\ includes(Parts(trim(markdown.lines[index]))[1], "yue")
      /\ LabelledValues(markdown.lines[index]) = {}) =>
       LET fields == Parts(trim(markdown.lines[index]))
           Numeric(k) == k > 1 /\ IsNumeral(fields[k])
           columns == {k \in 1..Len(fields) : Numeric(k)}
       IN /\ Len(locals'.sales) = Len(locals.sales) + Cardinality(columns)
          /\ SubSeq(locals'.sales, 1, Len(locals.sales)) = locals.sales
          /\ \A k \in columns :
               LET n == Len(locals.sales) + Cardinality({c \in columns : c <= k})
               IN locals'.sales[n] = [key |-> fields[1], value |-> NumeralValue(fields[k])]
    ]_parserVars

\* C15: the datasets a call returns depend on its input text alone: at any
\* point of a call the locals are what the scan of this call's lines so far
\* gives from empty locals, whatever was parsed before, so two calls on the
\* same text return the same datasets.
C15_Deterministic ==
  /\ index >= 1 =>
       locals = ParseLines(EmptyLocals, SubSeq(markdown.lines, 1, index - 1), 1)
  /\ (parsed.returned /\ markdown.isString) =>
       parsed = Datasets(ParseLines(EmptyLocals, markdown.lines, 1))

C15_Witness ==
  /\ calls = 2
  /\ parsed.returned
  /\ locals.currentSection = "sales"
  /\ Len(parsed.sales) = 2

\* The line the forEach callback is about to read, and its fields.
CurrentLine == trim(markdown.lines[index])
LineStep == index \in 1..Len(markdown.lines) /\ index' = index + 1

\* The points a step appended to dataset d (the datasets only grow).
Appended(d) == SubSeq(locals'[d], Len(locals[d]) + 1, Len(locals'[d]))

\* The points of a row: one per field after the first whose text parses as
\* a number, with the first field as key.
ExpectedRowPoints(parts) == RowPoints(parts, 2)

\* C21: in the sales, the growth and the category section alike, a
\* "|"-delimited row of 3 or more fields adds to the dataset of the section
\* one point per field after the first that parses as a number, keyed by
\* the first field; a field that does not parse is skipped.
C21_RowPointsInEverySection ==
  [][(/\ LineStep
      /\ includes(CurrentLine, "|")
      /\ Len(Parts(CurrentLine)) >= 3
      /\ locals'.currentSection # ""
      /\ ~salesMatch(CurrentLine).matched) =>
       Appended(locals'.currentSection) = ExpectedRowPoints(Parts(CurrentLine))
    ]_parserVars

\* The numbers written in a line: the values of its longest stretches of
\* digits, thousands separators and decimal points.
WrittenNumbers(line) ==
  {NumeralValue(SubSeq(line, a, b)) :
     <<a, b>> \in {ab \in (1..Len(line)) \X (1..Len(line)) :
                    /\ ab[1] <= ab[2]
                    /\ \A k \in ab[1]..ab[2] : line[k] \in Digits \cup {",", "."}
                    /\ \E k \in ab[1]..ab[2] : line[k] \in Digits
                    /\ (ab[1] = 1 \/ line[ab[1] - 1] \notin Digits \cup {",", "."})
                    /\ (ab[2] = Len(line) \/ line[ab[2] + 1] \notin Digits \cup {",", "."})}}

\* C22: on the table path and on the pattern path alike, the value of every
\* point is a number written in the line, thousands separators removed and
\* the decimal point kept; a line with no number gives no point.
C22_ValueIsTheWrittenNumber ==
  [][LineStep =>
       \A d \in {"sales", "growth", "categories"} :
         \A n \in 1..Len(Appended(d)) :
           Appended(d)[n].value \in WrittenNumbers(CurrentLine)
    ]_parserVars

C24_DisplayedNeverEmpty ==
  /\ salesData # <<>> /\ growthData # <<>> /\ categoryData # <<>>
  /\ (HasMarkdown(ocrResult) /\ useOCRData) =>
       LET p == parseOCRData(ocrResult.markdown) IN
       /\ salesData = (IF p.sales = <<>> THEN mockSalesData ELSE p.sales)
       /\ growthData = (IF p.growth = <<>> THEN mockGrowthData ELSE p.growth)
       /\ categoryData = (IF p.categories = <<>> THEN mockCategoryData ELSE p.categories)

C24_Witness ==
  /\ HasMarkdown(ocrResult) /\ useOCRData
  /\ salesData = mockSalesData
  /\ growthData # mockGrowthData
  /\ categoryData = mockCategoryData

\* C28: the charts agree with the data-source indicator: while useOCRData
\* is false the three displayed datasets are the example datasets.
C28_ChartsAgreeWithIndicator ==
  ~useOCRData =>
    /\ salesData = mockSalesData
    /\ growthData = mockGrowthData
    /\ categoryData = mockCategoryData

\* C29: in DataVisualizationAdvanced, over any sequence of uploads, while
\* currentTaskId is set the stored results and report are those of that
\* task; currentTaskId is only ever set to the id of a run at the step that
\* run completes successfully, and a download request carries that id; the
\* stored results and report change only when a run completes successfully
\* (or the component leaves the page), so a failed run leaves them as they
\* were.
C29_StoredResultsBelongToCurrentTask ==
  /\ [](currentTaskId # NoTask =>
          /\ processingResults = [src |-> "results", task |-> currentTaskId]
          /\ htmlReport = [src |-> "report", task |-> currentTaskId])
  /\ [][(currentTaskId' # currentTaskId /\ currentTaskId' # NoTask) =>
          /\ runResult = "pending" /\ runResult' = "resolved"
          /\ currentTaskId' = taskId]_allVars
  /\ [][Len(downloadLog') > Len(downloadLog) =>
          /\ currentTaskId # NoTask
          /\ downloadLog'[Len(downloadLog')].task = currentTaskId]_allVars
  /\ [][(processingResults' # processingResults \/ htmlReport' # htmlReport) =>
          \/ runResult = "pending" /\ runResult' = "resolved"
          \/ mounted /\ ~mounted']_allVars

C29_Witness ==
  /\ uploads = 2
  /\ runResult = "rejected"
  /\ currentTaskId = NoTask
  /\ processingResults # NoResults
  /\ Len(downloadLog) > 0

\* The claims below on ChatAssistantUpdated are checked under UpdatedSpec.
Contents(msgs) == {msgs[i] : i \in 1..Len(msgs)}

\* C25: whatever the OCR call produces (success, processing, error, an
\* exception), handleFileUpload removes one message only, its own
\* "processing the document" placeholder: every other message of the
\* transcript, the "upload file" message of this upload among them, is
\* still there when the handler finishes.
C25_OnlyThePlaceholderIsRemoved ==
  [][(pc = "ocr" /\ pc' = "idle") =>
       /\ ChatMessage("assistant", "processing the document", uploads) \notin Contents(messages')
       /\ ChatMessage("user", "upload file", uploads) \in Contents(messages')
       /\ Contents(messages) \ {ChatMessage("assistant", "processing the document", uploads)}
            \subseteq Contents(messages')
    ]_vars

\* C26: once every timer of handleSend has fired, no "analysing your
\* question" placeholder is left and every question has exactly one reply
\* (stated here for a session without uploads).
C26_EveryQuestionAnswered ==
  (ui = ChatU /\ uploads = 0 /\ sendTimers = <<>>) =>
    /\ \A i \in 1..Len(messages) : messages[i].content # "analysing your question"
    /\ \A n \in 1..sends :
         Cardinality({i \in 1..Len(messages) :
                        /\ messages[i].type = "assistant"
                        /\ messages[i].about = n}) = 1

\* C27: ChatAssistant.handleSend issues a POST /analyze request only for a
\* task whose processing run has completed successfully; while the run is
\* polling, or after it ended with an error, no request is sent. (A request
\* sent between the completed snapshot and the end of the run is let pass.)
C27_AnalyzeOnlyAfterSuccess ==
  \A i \in 1..Len(analyzeLog) :
    analyzeLog[i].run = "resolved" \/ analyzeLog[i].status = "completed"

\* C30: in each of the three upload handlers isProcessing is true from the
\* start of a processing run until the run ends, and false once it has
\* ended, whichever way it ended: while the component is on the page the
\* file input is disabled exactly while a run is in progress.
C30_ProcessingExactlyDuringRun ==
  mounted => (isProcessing <=> pc # "idle")

\* A run that ended by the timeout of the polling loop.
C30_Witness ==
  /\ mounted /\ uploads > 0
  /\ pc = "idle" /\ ~isProcessing
  /\ runResult = "rejected" /\ runError = TimeoutError

\* The claims below on downloads are checked under DownloadSpec.

\* The save actions of call n of downloadFile.
SavesOf(n) == {i \in 1..Len(saved) : saved[i].call = n}

\* C16: a call of downloadFile answered with a success status resolves
\* after exactly one save action, whose filename is made of the task id and
\* the file type of the call; a call answered with any other status (or
\* not answered) rejects with the error that carries that status and has no
\* save action.
C16_DownloadSavesOnce ==
  \A n \in 1..Len(downloadLog) :
    LET call == downloadLog[n] IN
    /\ call.outcome = "pending" <=> call.code = -1
    /\ call.outcome = "pending" => SavesOf(n) = {}
    /\ (call.code # -1 /\ ResponseOk(call.code)) =>
         /\ call.outcome = "resolved"
         /\ Cardinality(SavesOf(n)) = 1
         /\ \A i \in SavesOf(n) : saved[i].name = Filename(call.fileType, call.task)
    /\ (call.code # -1 /\ ~ResponseOk(call.code)) =>
         /\ call.outcome = "rejected"
         /\ SavesOf(n) = {}
         /\ call.code # 0 => call.error = [tmpl |-> "download failed: %s", arg |-> call.code]

C16_Witness ==
  /\ Len(downloadLog) = 2
  /\ downloadLog[1].code = 404 /\ downloadLog[1].outcome = "rejected"
  /\ downloadLog[2].code = 200 /\ downloadLog[2].outcome = "resolved"
  /\ Len(saved) = 1

\* The claims below on both upload components are checked under SessionSpec.

\* C17: a request of the task lifecycle that is answered with a non-success
\* status fails with an error; the body of such a response is never stored
\* as the results of the task.
C17_FailureBodyNeverResults ==
  /\ processingResults.src # "error body"
  /\ processedResults.src # "error body"

\* C18: at most one processing run is going on: a run is started only when
\* none is in progress, and never more than one request is outstanding.
C18_OneRunAtATime ==
  [][/\ Cardinality(inflight') <= 1
     /\ (pc' # "idle") = (runResult' = "pending")
     /\ uploads' = uploads + 1 =>
          /\ pc = "idle"
          /\ inflight = {}
          /\ runResult # "pending"]_vars

C18_Witness ==
  /\ uploads = 2
  /\ pc = "status"
  /\ statusRequests = 2
  /\ isProcessing

\* The task state the component shows.
LocalTaskState == IF ui = DVA THEN taskStatus ELSE currentTask

\* C19: once the upload has returned the task id and until the first status
\* poll is answered, the task state the component shows is pending.
C19_PendingAfterUpload ==
  (mounted /\ pc = "status" /\ progressCalls = 0) => LocalTaskState.status = "pending"

\* C20: an upload request is sent only for a file that passes
\* validateFileType and validateFileSize.
C20_OnlyValidFilesUploaded ==
  [][\A f \in Files :
       ((DVA_handleFileUpload(f) \/ Chat_handleFileUpload(f)) /\ uploads' = uploads + 1)
         => (validateFileType(f) /\ validateFileSize(f))]_vars

====
